---- MODULE Spec2Model ----
(***************************************************************************)
(* ting-reader-client: the local media cache, its eviction pass, the       *)
(* ting:// streaming proxy, the redirect resolver and the download task    *)
(* queue, as state machines translated from the Electron main process      *)
(* (main.js, cache-manager.js) and the renderer's downloadStore.ts.        *)
(***************************************************************************)
EXTENDS Integers, Sequences, FiniteSets, TLC

Null == "null"

(***************************************************************************)
(* DownloadTaskQueue: frontend/src/store/downloadStore.ts                  *)
(***************************************************************************)
VARIABLES
    tasks,          \* DownloadState.tasks: a sequence of task records
    activeTaskId,   \* DownloadState.activeTaskId
    calls,          \* per task id, the downloadChapter calls awaiting their result
    isElectron,     \* the module constant isElectron
    opsLeft,        \* store operations the environment may still invoke
    lastOp          \* the store operation that ran last, its argument, and the
                    \* status its task had when the operation was invoked

queueVars == <<tasks, activeTaskId, calls, isElectron, opsLeft, lastOp>>

(***************************************************************************)
(* CacheStore and EvictionPolicy: cache-manager.js.  The cache directory   *)
(* maps file names to files; a file keeps its data and modification time   *)
(* when it is renamed, and a writer that holds it open keeps writing to it *)
(* after a rename or an unlink of its name.                                *)
(***************************************************************************)
VARIABLES
    dir,        \* the cache directory: file name -> file id, or Null
    files,      \* file id -> [data, mtime]
    maxFiles,   \* MAX_FILES, scaled down and drawn from a small set
    maxBytes,   \* MAX_CACHE_SIZE_BYTES, scaled down and drawn from a small set
    passes      \* the ensureCacheLimits calls in progress, by slot

fsVars == <<dir, files>>
limitVars == <<maxFiles, maxBytes>>

(***************************************************************************)
(* Range serving of a cached file: main.js, protocol.handle('ting')        *)
(***************************************************************************)
VARIABLES
    rangeIn,    \* a cached file's size and the Range header of a request for it
    rangeOut    \* the handler's answer to it

rangeVars == <<rangeIn, rangeOut>>

(***************************************************************************)
(* Address resolution: main.js, ipcMain.handle('resolve-redirect')         *)
(***************************************************************************)
VARIABLES
    redir       \* the resolve-redirect call: its locals and what it returned

(***************************************************************************)
(* StreamProxy: main.js, protocol.handle('ting') and saveStreamToFile      *)
(***************************************************************************)
VARIABLES
    reqs,       \* the ting:// requests, by slot: inputs, position, response
    wr,         \* the cache writes, by writer: position, queued and written chunks
    clock,      \* the file system's time
    adminLeft,  \* clear-cache calls the user may still make
    removals    \* final names that eviction or clear-cache have removed

reqVars == <<reqs, wr, clock, adminLeft>>
cacheVars == <<reqVars, removals>>

(***************************************************************************)
(* A download task's run: downloadStore.ts startDownload, main.js          *)
(* ipcMain.handle('download-chapter' / 'download-cover'), and              *)
(* cache-manager.js downloadToCache                                        *)
(***************************************************************************)
VARIABLES
    dl,         \* the downloadToCache call of a task: inputs, position, result
    clr         \* the clearCache call: position, the names it listed, result

nonQueueVars == <<fsVars, limitVars, passes, rangeVars, redir, cacheVars, dl, clr>>
nonPassVars == <<queueVars, limitVars, rangeVars, redir, reqVars, dl, clr>>
nonRangeVars == <<queueVars, fsVars, limitVars, passes, redir, cacheVars, dl, clr>>
nonRedirVars == <<queueVars, fsVars, limitVars, passes, rangeVars, cacheVars, dl, clr>>
nonCacheVars == <<queueVars, limitVars, rangeVars, redir, dl, clr>>
nonDlVars == <<queueVars, limitVars, rangeVars, redir, adminLeft, removals, clr>>
nonClearVars == <<queueVars, limitVars, rangeVars, redir, dl, files, passes, reqs, wr, clock>>


TaskIds == {"a", "b", "c"}
Statuses == {"pending", "downloading", "completed", "failed"}
\* the environment invokes at most MaxOps store operations
MaxOps == 5

\* the store state the operations read with get() and write with set()
Store(t, a, c) == [tasks |-> t, activeTaskId |-> a, calls |-> c]

\* tasks.find(t => t.status === 'pending'): the first pending task
HasPending(ts) == \E i \in 1..Len(ts) : ts[i].status = "pending"
\* a queue that takes the pending task closest to the end of the list
FirstPending_Oldest(ts) ==
    ts[CHOOSE i \in 1..Len(ts) :
          /\ ts[i].status = "pending"
          /\ \A j \in (i+1)..Len(ts) : ts[j].status # "pending"]

\* tasks.find(t => t.status === 'pending')
FirstPending(ts) ==
    ts[CHOOSE i \in 1..Len(ts) :
          /\ ts[i].status = "pending"
          /\ \A j \in 1..(i-1) : ts[j].status # "pending"]

completeTask(S, taskId) ==
    [S EXCEPT !.tasks = [i \in 1..Len(S.tasks) |->
        IF S.tasks[i].id = taskId
        THEN [S.tasks[i] EXCEPT !.status = "completed", !.progress = 100]
        ELSE S.tasks[i]]]

failTask(S, taskId) ==
    [S EXCEPT !.tasks = [i \in 1..Len(S.tasks) |->
        IF S.tasks[i].id = taskId
        THEN [S.tasks[i] EXCEPT !.status = "failed", !.error = TRUE]
        ELSE S.tasks[i]]]

RECURSIVE processQueue(_, _)
RECURSIVE startDownload(_, _, _)

\* startDownload up to its await of electronAPI.downloadChapter; outside
\* Electron the throw, the catch and the finally run in the same turn
startDownload(S, taskId, electron) ==
    LET S1 == [S EXCEPT !.activeTaskId = taskId]
    IN  IF ~\E i \in 1..Len(S1.tasks) : S1.tasks[i].id = taskId
        THEN [S1 EXCEPT !.activeTaskId = Null]
        ELSE LET S2 == [S1 EXCEPT !.tasks = [i \in 1..Len(S1.tasks) |->
                          IF S1.tasks[i].id = taskId
                          THEN [S1.tasks[i] EXCEPT !.status = "downloading", !.error = FALSE]
                          ELSE S1.tasks[i]]]
             IN  IF electron
                 THEN [S2 EXCEPT !.calls[taskId] = @ + 1]
                 ELSE processQueue([failTask(S2, taskId) EXCEPT !.activeTaskId = Null], electron)

processQueue(S, electron) ==
    IF S.activeTaskId # Null THEN S
    ELSE IF HasPending(S.tasks)
         THEN startDownload(S, FirstPending(S.tasks).id, electron)
         ELSE S

retryTask(S, taskId, electron) ==
    processQueue([S EXCEPT !.tasks = [i \in 1..Len(S.tasks) |->
        IF S.tasks[i].id = taskId
        THEN [S.tasks[i] EXCEPT !.status = "pending", !.progress = 0, !.error = FALSE]
        ELSE S.tasks[i]]], electron)

\* an addTask that resets every record it finds, failed or not
addTask_RetriesExisting(S, id, electron) ==
    IF \E i \in 1..Len(S.tasks) : S.tasks[i].id = id
    THEN retryTask(S, id, electron)
    ELSE processQueue([S EXCEPT !.tasks =
             <<[id |-> id, status |-> "pending", progress |-> 0, error |-> FALSE]>> \o S.tasks],
             electron)

\* an addTask that does not look for a failed record
addTask_PrependsFailed(S, id, electron) ==
    IF \E i \in 1..Len(S.tasks) : S.tasks[i].id = id /\ S.tasks[i].status # "failed" THEN S
    ELSE processQueue([S EXCEPT !.tasks =
             <<[id |-> id, status |-> "pending", progress |-> 0, error |-> FALSE]>> \o S.tasks],
             electron)

addTask(S, id, electron) ==
    IF \E i \in 1..Len(S.tasks) : S.tasks[i].id = id /\ S.tasks[i].status # "failed" THEN S
    ELSE IF \E i \in 1..Len(S.tasks) : S.tasks[i].id = id /\ S.tasks[i].status = "failed"
         THEN retryTask(S, id, electron)
         ELSE processQueue([S EXCEPT !.tasks =
                  <<[id |-> id, status |-> "pending", progress |-> 0, error |-> FALSE]>> \o S.tasks],
                  electron)

initializeQueue(S, electron) ==
    processQueue([S EXCEPT
        !.tasks = [i \in 1..Len(S.tasks) |->
            IF S.tasks[i].status = "downloading"
            THEN [S.tasks[i] EXCEPT !.status = "pending"]
            ELSE S.tasks[i]],
        !.activeTaskId = Null], electron)

clearAllTasks(S) == [S EXCEPT !.tasks = <<>>, !.activeTaskId = Null]

NotCompleted(t) == t.status # "completed"
clearCompleted(S) == [S EXCEPT !.tasks = SelectSeq(S.tasks, NotCompleted)]

removeTask(S, taskId) ==
    LET Keep(t) == t.id # taskId
    IN  [S EXCEPT !.tasks = SelectSeq(S.tasks, Keep)]

updateTaskProgress(S, taskId, progress) ==
    [S EXCEPT !.tasks = [i \in 1..Len(S.tasks) |->
        IF S.tasks[i].id = taskId
        THEN [S.tasks[i] EXCEPT !.progress = progress]
        ELSE S.tasks[i]]]

\* the rest of startDownload, after the awaited downloadChapter call has
\* returned {success} or rejected: completeTask or failTask, then finally
downloadSettled(S, taskId, success, electron) ==
    LET S1 == [S EXCEPT !.calls[taskId] = @ - 1]
        S2 == IF success THEN completeTask(S1, taskId) ELSE failTask(S1, taskId)
    IN  processQueue([S2 EXCEPT !.activeTaskId = Null], electron)

Cur == Store(tasks, activeTaskId, calls)

SetStore(S) ==
    /\ tasks' = S.tasks
    /\ activeTaskId' = S.activeTaskId
    /\ calls' = S.calls

\* tasks.find(t => t.id === id), as a status; "none": no such task
HasTask(ts, id) == \E i \in 1..Len(ts) : ts[i].id = id
IndexOf(ts, id) == CHOOSE i \in 1..Len(ts) : ts[i].id = id /\ \A j \in 1..(i-1) : ts[j].id # id
StatusOf(ts, id) == IF HasTask(ts, id) THEN ts[IndexOf(ts, id)].status ELSE "none"

Op(name, id) == [op |-> name, id |-> id, found |-> StatusOf(tasks, id)]
NoOp == [op |-> "none", id |-> "-", found |-> "none"]

UserOp(S, name, id) ==
    /\ opsLeft > 0
    /\ opsLeft' = opsLeft - 1
    /\ lastOp' = Op(name, id)
    /\ SetStore(S)
    /\ UNCHANGED <<isElectron, nonQueueVars>>

AddTask == \E id \in TaskIds : UserOp(addTask(Cur, id, isElectron), "addTask", id)
RetryTask == \E id \in TaskIds : UserOp(retryTask(Cur, id, isElectron), "retryTask", id)
RemoveTask == \E id \in TaskIds : UserOp(removeTask(Cur, id), "removeTask", id)
ClearCompleted == UserOp(clearCompleted(Cur), "clearCompleted", "-")
ClearAllTasks == UserOp(clearAllTasks(Cur), "clearAllTasks", "-")
InitializeQueue == UserOp(initializeQueue(Cur, isElectron), "initializeQueue", "-")

\* the store as create(persist(...)) builds it when the window is loaded
\* again: the persisted part of the state is the task list, activeTaskId
\* starts as null, and the downloadChapter calls the previous window awaited
\* have nobody left to report to
rehydrate(S) == Store(S.tasks, Null, [id \in TaskIds |-> 0])
Restart == UserOp(rehydrate(Cur), "restart", "-")

\* a download-progress event of a running download
UpdateTaskProgress ==
    \E id \in TaskIds :
        /\ calls[id] > 0
        /\ SetStore(updateTaskProgress(Cur, id, 50))
        /\ lastOp' = Op("updateTaskProgress", id)
        /\ UNCHANGED <<isElectron, opsLeft, nonQueueVars>>

DownloadSettled ==
    \E id \in TaskIds, success \in BOOLEAN :
        /\ calls[id] > 0
        /\ SetStore(downloadSettled(Cur, id, success, isElectron))
        /\ lastOp' = Op(IF success THEN "completeTask" ELSE "failTask", id)
        /\ UNCHANGED <<isElectron, opsLeft, nonQueueVars>>

QueueInit ==
    /\ tasks = <<>>
    /\ activeTaskId = Null
    /\ calls = [id \in TaskIds |-> 0]
    /\ isElectron \in BOOLEAN
    /\ opsLeft = MaxOps
    /\ lastOp = NoOp

QueueNext ==
    \/ AddTask
    \/ RetryTask
    \/ RemoveTask
    \/ ClearCompleted
    \/ ClearAllTasks
    \/ InitializeQueue
    \/ Restart
    \/ UpdateTaskProgress
    \/ DownloadSettled

\* final file names: `${chapterId}.mp3` for two chapters, cover_${bookId} for one book
FinalNames == {"c1.mp3", "c2.mp3", "cover_b1"}
TmpNames == {"c1.mp3.tmp", "c2.mp3.tmp", "cover_b1.tmp"}
Names == FinalNames \cup TmpNames
\* tempPath = filePath + '.tmp'
tempPath(filePath) ==
    CASE filePath = "c1.mp3" -> "c1.mp3.tmp"
      [] filePath = "c2.mp3" -> "c2.mp3.tmp"
      [] filePath = "cover_b1" -> "cover_b1.tmp"
\* the order in which readdir lists the directory
ReaddirOrder == <<"c1.mp3", "c1.mp3.tmp", "c2.mp3", "c2.mp3.tmp", "cover_b1", "cover_b1.tmp">>

\* files that exist before the modelled run are identified by their name,
\* files created by a writer by the writer
WriterIds == {"w1", "w2", "d1"}
FileIds == FinalNames \cup WriterIds

\* a file holds at most MaxChunks chunks of 1000 bytes each
MaxChunks == 2
\* modification times of the files that exist at the start are in 1..MaxMtime
MaxMtime == 3
\* the file-count limit is drawn from 1..MaxFileLimit
MaxFileLimit == 2
\* the byte limit is drawn from 1000 * (1..MaxByteLimit)
MaxByteLimit == 3

NoFile == [data |-> <<>>, mtime |-> 0]
\* the body of a complete file of n chunks from source src
Body(src, n) == [i \in 1..n |-> [src |-> src, idx |-> i]]
\* stats.size
ByteSize(f) == Len(f.data) * 1000

Present(d) == {n \in Names : d[n] # Null}

\* fs.readdir: the names present, in listing order
Readdir(d) == LET In(n) == d[n] # Null IN SelectSeq(ReaddirOrder, In)

\* getCacheStats: stat of every listed name; a name whose stat fails (the
\* file is gone since the listing) is dropped
getCacheStats(listing, d, fl) ==
    LET Still(n) == d[n] # Null
        valid == SelectSeq(listing, Still)
    IN  [i \in 1..Len(valid) |->
            [name |-> valid[i], size |-> ByteSize(fl[d[valid[i]]]), mtime |-> fl[d[valid[i]]].mtime]]

RECURSIVE SumSizes(_)
SumSizes(fs) == IF fs = <<>> THEN 0 ELSE Head(fs).size + SumSizes(Tail(fs))

\* files.sort((a, b) => a.mtime - b.mtime): a stable sort, oldest first
RECURSIVE InsertByMtime(_, _)
InsertByMtime(sorted, f) ==
    IF sorted = <<>> THEN <<f>>
    ELSE IF Head(sorted).mtime <= f.mtime
         THEN <<Head(sorted)>> \o InsertByMtime(Tail(sorted), f)
         ELSE <<f>> \o sorted
\* a sort that puts the newest first
RECURSIVE SortByMtime_NewestFirst(_)
SortByMtime_NewestFirst(fs) ==
    IF fs = <<>> THEN <<>>
    ELSE LET rest == SortByMtime_NewestFirst(SubSeq(fs, 1, Len(fs) - 1))
             f == fs[Len(fs)]
             Newer(g) == g.mtime > f.mtime
             NotNewer(g) == g.mtime <= f.mtime
         IN  SelectSeq(rest, Newer) \o <<f>> \o SelectSeq(rest, NotNewer)

RECURSIVE SortByMtime(_)
SortByMtime(fs) ==
    IF fs = <<>> THEN <<>>
    ELSE InsertByMtime(SortByMtime(SubSeq(fs, 1, Len(fs) - 1)), fs[Len(fs)])

\* a loop that goes on while the size is at the limit
RECURSIVE DeleteBySize_AtLimit(_, _, _)
DeleteBySize_AtLimit(fs, currentSize, limit) ==
    IF fs = <<>> \/ currentSize < limit THEN <<>>
    ELSE <<Head(fs)>> \o DeleteBySize_AtLimit(Tail(fs), currentSize - Head(fs).size, limit)

\* the loop `for (const file of files) { if (currentSize <= MAX) break; ... }`
RECURSIVE DeleteBySize(_, _, _)
DeleteBySize(fs, currentSize, limit) ==
    IF fs = <<>> \/ currentSize <= limit THEN <<>>
    ELSE <<Head(fs)>> \o DeleteBySize(Tail(fs), currentSize - Head(fs).size, limit)

\* a selection that enforces the file count only
filesToDelete_CountOnly(stats, mFiles, mBytes) ==
    LET sorted == SortByMtime(stats)
    IN  SubSeq(sorted, 1, IF Len(sorted) > mFiles THEN Len(sorted) - mFiles ELSE 0)

\* ensureCacheLimits, from the stats to filesToDelete
filesToDelete(stats, mFiles, mBytes) ==
    LET size == SumSizes(stats)
    IN  IF size > mBytes \/ Len(stats) > mFiles
        THEN LET sorted == SortByMtime(stats)
                 countToDelete == IF Len(sorted) > mFiles THEN Len(sorted) - mFiles ELSE 0
                 deletedByCount == SubSeq(sorted, 1, countToDelete)
                 rest == SubSeq(sorted, countToDelete + 1, Len(sorted))
                 currentSize == size - SumSizes(deletedByCount)
             IN  deletedByCount \o DeleteBySize(rest, currentSize, mBytes)
        ELSE <<>>

\* concurrent ensureCacheLimits calls
PassIds == {"p1", "p2", "p3"}
IdlePass == [pc |-> "idle", listing |-> <<>>, stats |-> <<>>, selected |-> <<>>,
             todo |-> <<>>, deleted |-> {}, outcome |-> "none", prev |-> "none"]

\* ensureCacheLimits() is called: the pass runs up to its first await; prev
\* keeps how the slot's previous pass ended
startPass(ps, p) == [ps EXCEPT ![p] = [IdlePass EXCEPT !.pc = "readdir", !.prev = ps[p].outcome]]
\* the call is over: its locals are gone; how it ended is kept
endPass(ps, p, outcome) ==
    [ps EXCEPT ![p] = [IdlePass EXCEPT !.outcome = outcome, !.prev = ps[p].prev]]

\* await fs.readdir(cacheDir)
EvictReaddir(p) ==
    /\ passes[p].pc = "readdir"
    /\ passes' = [passes EXCEPT ![p].pc = "stat", ![p].listing = Readdir(dir)]
    /\ UNCHANGED <<fsVars, nonPassVars, removals>>

\* the stats resolve; the pass sorts and selects, and reaches its first unlink
\* or, with nothing selected, its end
EvictStat(p) ==
    /\ passes[p].pc = "stat"
    /\ LET stats == getCacheStats(passes[p].listing, dir, files)
           todo == filesToDelete(stats, maxFiles, maxBytes)
       IN  passes' = [passes EXCEPT ![p].stats = stats, ![p].selected = todo, ![p].todo = todo,
                          ![p].pc = IF todo = <<>> THEN "return" ELSE "unlink"]
    /\ UNCHANGED <<fsVars, nonPassVars, removals>>

\* await fs.unlink(file.path) of the next selected file, which exists
EvictUnlink(p) ==
    /\ passes[p].pc = "unlink"
    /\ LET f == Head(passes[p].todo)
           rest == Tail(passes[p].todo)
       IN  /\ dir[f.name] # Null
           /\ dir' = [dir EXCEPT ![f.name] = Null]
           /\ passes' = [passes EXCEPT ![p].todo = rest,
                             ![p].deleted = @ \cup {f.name},
                             ![p].pc = IF rest = <<>> THEN "return" ELSE "unlink"]
           /\ removals' = removals \cup ({f.name} \cap FinalNames)
    /\ UNCHANGED <<files, nonPassVars>>

\* await fs.unlink(file.path) of a file that is gone: the exception ends the
\* loop and is logged by the catch around the pass
EvictUnlinkFail(p) ==
    /\ passes[p].pc = "unlink"
    /\ dir[Head(passes[p].todo).name] = Null
    /\ passes' = endPass(passes, p, "failed")
    /\ UNCHANGED <<fsVars, nonPassVars, removals>>

\* the pass returns
EvictReturn(p) ==
    /\ passes[p].pc = "return"
    /\ passes' = endPass(passes, p, "done")
    /\ UNCHANGED <<fsVars, nonPassVars, removals>>

\* the process stops in the middle of a pass
EvictCrash(p) ==
    /\ passes[p].pc = "unlink"
    /\ passes[p].deleted # {}
    /\ passes' = endPass(passes, p, "stopped")
    /\ UNCHANGED <<fsVars, nonPassVars, removals>>

\* a caller invokes ensureCacheLimits while no other pass runs
EvictCall ==
    /\ \A q \in PassIds : passes[q].pc = "idle"
    /\ passes' = startPass(passes, "p1")
    /\ UNCHANGED <<fsVars, nonPassVars, removals>>

\* a second caller invokes ensureCacheLimits while the first pass runs
EvictCallAgain ==
    /\ passes["p1"].pc # "idle"
    /\ passes["p2"].pc = "idle"
    /\ passes["p2"].outcome = "none"
    /\ passes' = startPass(passes, "p2")
    /\ UNCHANGED <<fsVars, nonPassVars, removals>>

(***************************************************************************)
(* Range serving.  Header values are texts: sequences of characters.       *)
(***************************************************************************)
DigitChars == <<"0", "1", "2", "3", "4", "5", "6", "7", "8", "9">>
IsDigit(c) == \E i \in 1..10 : DigitChars[i] = c
DigitVal(c) == (CHOOSE i \in 1..10 : DigitChars[i] = c) - 1

\* a JavaScript number: an integer or NaN
Num(v) == [nan |-> FALSE, v |-> v]
NaN == [nan |-> TRUE, v |-> 0]

\* `${n}` of a non-negative integer
RECURSIVE Digits(_)
Digits(n) == IF n < 10 THEN <<DigitChars[n + 1]>>
             ELSE Digits(n \div 10) \o <<DigitChars[(n % 10) + 1]>>
\* `${x}` of a number
NumText(x) == IF x.nan THEN <<"N", "a", "N">>
              ELSE IF x.v < 0 THEN <<"-">> \o Digits(0 - x.v)
              ELSE Digits(x.v)

BytesEq == <<"b", "y", "t", "e", "s", "=">>
\* whether text t holds pat at position i
MatchAt(t, pat, i) ==
    /\ i + Len(pat) - 1 <= Len(t)
    /\ \A k \in 1..Len(pat) : t[i + k - 1] = pat[k]
\* rangeHeader.replace(/bytes=/, ""): the first occurrence is removed
stripBytesEq(t) ==
    IF \E i \in 1..Len(t) : MatchAt(t, BytesEq, i)
    THEN LET i == CHOOSE j \in 1..Len(t) :
                     MatchAt(t, BytesEq, j) /\ \A k \in 1..(j - 1) : ~MatchAt(t, BytesEq, k)
         IN  SubSeq(t, 1, i - 1) \o SubSeq(t, i + Len(BytesEq), Len(t))
    ELSE t

\* .split("-")
RECURSIVE split(_)
split(t) ==
    IF \E i \in 1..Len(t) : t[i] = "-"
    THEN LET i == CHOOSE j \in 1..Len(t) : t[j] = "-" /\ \A k \in 1..(j - 1) : t[k] # "-"
         IN  <<SubSeq(t, 1, i - 1)>> \o split(SubSeq(t, i + 1, Len(t)))
    ELSE <<t>>

\* the value of a run of digits
RECURSIVE DigitsValue(_)
DigitsValue(t) == IF t = <<>> THEN 0
                  ELSE 10 * DigitsValue(SubSeq(t, 1, Len(t) - 1)) + DigitVal(t[Len(t)])
\* the longest prefix of t made of digits
RECURSIVE DigitPrefix(_)
DigitPrefix(t) == IF t # <<>> /\ IsDigit(Head(t)) THEN <<Head(t)>> \o DigitPrefix(Tail(t)) ELSE <<>>
RECURSIVE SkipSpaces(_)
SkipSpaces(t) == IF t # <<>> /\ Head(t) = " " THEN SkipSpaces(Tail(t)) ELSE t
\* parseInt(t, 10) of a text without a sign: leading blanks are skipped, the
\* digits up to the first other character are read, no digit gives NaN
parseInt(t) ==
    LET ds == DigitPrefix(SkipSpaces(t))
    IN  IF ds = <<>> THEN NaN ELSE Num(DigitsValue(ds))

\* a chunksize that leaves out the + 1
chunksize_NoPlusOne(start, end) ==
    IF start.nan \/ end.nan THEN NaN ELSE Num(end.v - start.v)

\* const chunksize = (end - start) + 1
chunksize(start, end) ==
    IF start.nan \/ end.nan THEN NaN ELSE Num((end.v - start.v) + 1)

\* fs.createReadStream(path, { start, end }) rejects a start or end that is
\* no integer >= 0, and a start beyond end
readStreamThrows(start, end) ==
    \/ start.nan \/ end.nan
    \/ start.v < 0 \/ end.v < 0
    \/ start.v > end.v
\* the offsets the read stream delivers from a file of `size` bytes
readStreamBody(size, start, end) == {i \in start.v..end.v : i < size}

\* no answer yet, and the handler ending with an exception instead of an answer
Unserved == [pc |-> "pending", status |-> 0, contentRange |-> <<>>, acceptRanges |-> <<>>,
             contentLength |-> <<>>, contentType |-> <<>>, body |-> {}]
Thrown == [Unserved EXCEPT !.pc = "thrown"]

\* the range branch of the cache-hit path, for a file of `size` > 0 bytes
serveRange(size, rangeHeader) ==
    LET parts == split(stripBytesEq(rangeHeader))
        start == parseInt(parts[1])
        end == IF Len(parts) >= 2 /\ parts[2] # <<>> THEN parseInt(parts[2]) ELSE Num(size - 1)
    IN  IF readStreamThrows(start, end) THEN Thrown
        ELSE [pc |-> "answered",
              status |-> 206,
              contentRange |-> <<"b", "y", "t", "e", "s", " ">> \o NumText(start) \o <<"-">>
                               \o NumText(end) \o <<"/">> \o Digits(size),
              acceptRanges |-> <<"b", "y", "t", "e", "s">>,
              contentLength |-> NumText(chunksize(start, end)),
              contentType |-> <<"a", "u", "d", "i", "o", "/", "m", "p", "e", "g">>,
              body |-> readStreamBody(size, start, end)]

\* an offset of a Range header, given or left out
Given(v) == [given |-> TRUE, v |-> v]
LeftOut == [given |-> FALSE, v |-> 0]
\* sizes of the cached file and the offsets a client asks for
RangeSizes == {1, 2, 200, 1000}
RangeOffsets == {0, 1, 2, 100, 199, 200, 999, 1000, 1500}
\* the header a client sends for bytes first..last
rangeHeaderOf(first, last) ==
    BytesEq \o (IF first.given THEN Digits(first.v) ELSE <<>>) \o <<"-">>
            \o (IF last.given THEN Digits(last.v) ELSE <<>>)

RangeInit ==
    /\ rangeIn \in [size : RangeSizes,
                    first : {Given(v) : v \in RangeOffsets} \cup {LeftOut},
                    last : {Given(v) : v \in RangeOffsets} \cup {LeftOut}]
    /\ rangeOut = Unserved

\* the handler serves the request from the cached file
ServeRange ==
    /\ rangeOut.pc = "pending"
    /\ rangeIn.size > 0
    /\ rangeOut' = serveRange(rangeIn.size, rangeHeaderOf(rangeIn.first, rangeIn.last))
    /\ UNCHANGED <<rangeIn, nonRangeVars>>

RangeIdle == rangeIn = [size |-> 0, first |-> LeftOut, last |-> LeftOut] /\ rangeOut = Unserved

(***************************************************************************)
(* Address resolution.  A URL text is a sequence of tokens: a scheme, a    *)
(* host, path segments, blanks.                                            *)
(***************************************************************************)
Schemes == {"http://", "https://"}
Hosts == {"a", "httpbin"}
SlashSegs == {"/p", "/q"}
BareSegs == {"p", "q"}
withSlash(seg) == IF seg = "p" THEN "/p" ELSE "/q"

\* text.startsWith('http'), also true of a host such as httpbin
startsWithHttp(t) == t # <<>> /\ t[1] \in Schemes \cup {"httpbin"}
RECURSIVE dropBlanks(_)
dropBlanks(t) == IF t # <<>> /\ Head(t) = " " THEN dropBlanks(Tail(t)) ELSE t
\* currentUrl.match(/^http:\/\/\s*http/i) || currentUrl.match(/^https:\/\/\s*http/i)
doubledScheme(t) == t # <<>> /\ t[1] \in Schemes /\ startsWithHttp(dropBlanks(Tail(t)))
\* the handler's preparation of currentUrl from initialUrl
normalizeInput(initialUrl) ==
    LET u == IF startsWithHttp(initialUrl) THEN initialUrl ELSE <<"http://">> \o initialUrl
    IN  IF doubledScheme(u) THEN dropBlanks(Tail(u)) ELSE u

\* a text read as an absolute URL
parseUrl(t) ==
    IF /\ Len(t) >= 2
       /\ t[1] \in Schemes
       /\ t[2] \in Hosts
       /\ \/ \A i \in 3..Len(t) : t[i] \in SlashSegs
          \/ Len(t) = 3 /\ t[3] = "/"
    THEN [ok |-> TRUE, scheme |-> t[1], host |-> t[2],
          path |-> IF Len(t) = 3 /\ t[3] = "/" THEN <<>> ELSE SubSeq(t, 3, Len(t))]
    ELSE [ok |-> FALSE, scheme |-> "", host |-> "", path |-> <<>>]
\* URL.toString(): an empty path is written as "/"
toString(u) == <<u.scheme, u.host>> \o (IF u.path = <<>> THEN <<"/">> ELSE u.path)

InvalidUrl == [ok |-> FALSE, url |-> <<>>]
\* new URL(newLocation, currentUrl).toString(), or the exception
newURL(loc, base) ==
    LET b == parseUrl(base)
        l == parseUrl(loc)
    IN  IF loc[1] \in Schemes
        THEN IF l.ok THEN [ok |-> TRUE, url |-> toString(l)] ELSE InvalidUrl
        ELSE IF ~b.ok THEN InvalidUrl
        ELSE IF \A i \in 1..Len(loc) : loc[i] \in SlashSegs
        THEN [ok |-> TRUE, url |-> toString([b EXCEPT !.path = loc])]
        ELSE IF Len(loc) = 1 /\ loc[1] \in BareSegs
        THEN [ok |-> TRUE,
              url |-> toString([b EXCEPT !.path = SubSeq(b.path, 1, Len(b.path) - 1)
                                                     \o <<withSlash(loc[1])>>])]
        ELSE InvalidUrl

maxRedirects == 10

\* response.statusCode >= 300 && response.statusCode < 400 && response.headers['location']
isRedirect(statusCode, location) == statusCode >= 300 /\ statusCode < 400 /\ location # <<>>

\* a final status test that takes 5xx as well
acceptStatus_Below600(statusCode) == statusCode >= 200 /\ statusCode < 600

\* a final status test that takes 2xx only
acceptStatus_Only2xx(statusCode) == statusCode >= 200 /\ statusCode < 300

\* result.statusCode >= 200 && result.statusCode < 500
acceptStatus(statusCode) == statusCode >= 200 /\ statusCode < 500

\* the addresses the frontend passes in, the statuses and the Location
\* headers servers answer with (<<>>: no Location header)
InputUrls == {<<"a">>, <<"a", "/p", "/q">>, <<"http://", "a">>, <<"https://", "a", "/p">>,
              <<"http://", " ", "http://", "a">>, <<"https://", "http://", "a", "/q">>,
              <<"httpbin", "/p">>, <<"http://", "httpbin">>, <<>>}
StatusCodes == {200, 204, 302, 307, 401, 403, 404, 500}
Locations == {<<>>, <<"https://", "a", "/p">>, <<"http://", "httpbin", "/p", "/q">>, <<"/q">>,
              <<"/p", "/q">>, <<"q">>, <<"http://">>}

IdleRedir == [pc |-> "idle", initialUrl |-> <<>>, currentUrl |-> <<>>, loopCount |-> 0,
              requests |-> 0, prevUrl |-> <<>>, hopUrl |-> <<>>, hopLocation |-> <<>>,
              hopStatus |-> 0, cause |-> "none", result |-> <<>>]

\* return currentUrl
returnCurrent(r) == [r EXCEPT !.pc = "returned", !.result = r.currentUrl, !.cause = "accepted"]
\* a catch that returns the URL reached so far
returnInitial_ReturnsCurrent(r, cause) ==
    [r EXCEPT !.pc = "returned", !.result = r.currentUrl, !.cause = cause]

\* an exception inside the try: the catch returns initialUrl
returnInitial(r, cause) == [r EXCEPT !.pc = "returned", !.result = r.initialUrl, !.cause = cause]

\* a loop guard that lets one more iteration in
InLoop_OneMore == redir.pc = "loop" /\ redir.loopCount <= maxRedirects

\* while (loopCount < maxRedirects)
InLoop == redir.pc = "loop" /\ redir.loopCount < maxRedirects

\* the renderer invokes resolve-redirect
ResolveRedirect ==
    /\ redir.pc = "idle"
    /\ \E initialUrl \in InputUrls :
          redir' = [IdleRedir EXCEPT !.pc = "loop", !.initialUrl = initialUrl,
                                     !.currentUrl = normalizeInput(initialUrl)]
    /\ UNCHANGED nonRedirVars

\* net.request throws on a URL it cannot parse
RequestInvalid ==
    /\ InLoop
    /\ ~parseUrl(redir.currentUrl).ok
    /\ redir' = returnInitial(redir, "invalid-url")
    /\ UNCHANGED nonRedirVars

\* the request ends in an 'error' event
RequestError ==
    /\ InLoop
    /\ parseUrl(redir.currentUrl).ok
    /\ redir' = returnInitial([redir EXCEPT !.requests = @ + 1, !.hopUrl = redir.currentUrl],
                              "request-error")
    /\ UNCHANGED nonRedirVars

\* a response arrives: a redirect is followed, anything else ends the loop
RequestResponse ==
    /\ InLoop
    /\ parseUrl(redir.currentUrl).ok
    /\ \E statusCode \in StatusCodes, location \in Locations :
          LET r == [redir EXCEPT !.requests = @ + 1, !.hopUrl = redir.currentUrl,
                                 !.hopStatus = statusCode]
              next == newURL(location, redir.currentUrl)
          IN  redir' =
                IF isRedirect(statusCode, location)
                THEN IF next.ok
                     THEN [r EXCEPT !.currentUrl = next.url, !.loopCount = @ + 1,
                                    !.prevUrl = redir.currentUrl, !.hopLocation = location,
                                    !.hopStatus = 0]
                     ELSE returnInitial(r, "invalid-location")
                ELSE IF acceptStatus(statusCode)
                     THEN returnCurrent(r)
                     ELSE returnInitial(r, "status")
    /\ UNCHANGED nonRedirVars

\* the while condition fails: throw new Error('Too many redirects')
TooManyRedirects ==
    /\ redir.pc = "loop"
    /\ ~(redir.loopCount < maxRedirects)
    /\ redir' = returnInitial(redir, "too-many-redirects")
    /\ UNCHANGED nonRedirVars

RedirIdle == redir = IdleRedir

RedirNext ==
    \/ ResolveRedirect
    \/ RequestInvalid
    \/ RequestError
    \/ RequestResponse
    \/ TooManyRedirects

(***************************************************************************)
(* StreamProxy: the ting:// handler and its cache writes                   *)
(***************************************************************************)
\* two requests; the cache write of a request is known by the request's id
ReqIds == {"w1", "w2"}
\* the ensureCacheLimits call a request starts
PassOf(r) == IF r = "w1" THEN "p1" ELSE "p2"
\* the user clears the cache at most MaxAdmin times
MaxAdmin == 1

\* `${chapterId}.mp3` of the chapter streamed, `cover_${bookId}` of the book
cacheFileName(action) == IF action = "stream" THEN "c1.mp3" ELSE "cover_b1"

\* action, Range header present, cache !== '0'; the cover branch reads neither
ReqInputs ==
    {[action |-> "stream", range |-> rg, shouldCache |-> sc] : rg \in BOOLEAN, sc \in BOOLEAN}
        \cup {[action |-> "cover", range |-> FALSE, shouldCache |-> TRUE]}

\* what the remote answers: 0 stands for a fetch that rejects
OkStatuses(range) == IF range THEN {200, 206} ELSE {200}
FailStatuses == {404, 500}
\* response.ok
isOk(status) == status >= 200 /\ status <= 299
\* the body the remote sends: all chunks, or the part asked for
remoteBody(r, status) ==
    IF status = 206 THEN SubSeq(Body(r, MaxChunks), 1, 1) ELSE Body(r, MaxChunks)

NoResp == [src |-> "none", status |-> 0, body |-> <<>>]
\* the handler's promise rejects
ThrownResp == [src |-> "thrown", status |-> 0, body |-> <<>>]
IdleReq == [pc |-> "idle", action |-> "stream", name |-> "c1.mp3", range |-> FALSE,
            shouldCache |-> FALSE, second |-> FALSE, fetched |-> FALSE, remoteStatus |-> 0,
            resp |-> NoResp]
IdleWriter == [pc |-> "none", path |-> "c1.mp3", fd |-> Null, queued |-> 0, flushed |-> 0,
               broken |-> FALSE, outcome |-> "none"]

respond(q, resp) == [q EXCEPT !.pc = "done", !.resp = resp]

\* a failure answer that passes every status on
remoteFailureStatus_AlwaysPropagate(action, status) == status

\* the status the caller sees when the remote answers with a non-ok status
remoteFailureStatus(action, status) == IF action = "stream" THEN status ELSE 404
\* the status the caller sees when the fetch rejects
fetchErrorStatus(action) == IF action = "stream" THEN 500 ELSE 404

\* a caching condition that forgets the cache=0 flag
cachesResponse_IgnoreCacheFlag(action, shouldCache, range) ==
    IF action = "stream" THEN ~range ELSE TRUE

\* a caching condition that forgets the Range header
cachesResponse_IgnoreRange(action, shouldCache, range) ==
    IF action = "stream" THEN shouldCache ELSE TRUE

\* stream: if (shouldCache && !rangeHeader); cover: always
cachesResponse(action, shouldCache, range) ==
    IF action = "stream" THEN shouldCache /\ ~range ELSE TRUE

\* a failure handler that fails the caller's response too
onCacheWriteFailed_FailsResponse(resp) == [resp EXCEPT !.status = 500, !.body = <<>>]

\* saveStreamToFile(...).catch(err => console.error(...)): the response stays
onCacheWriteFailed(resp) == resp

\* a write of one chunk at chunk offset pos; a gap before it reads as zeros
Hole == [src |-> "hole", idx |-> 0]
WriteAt(data, pos, chunk) ==
    IF pos < Len(data) THEN [data EXCEPT ![pos + 1] = chunk]
    ELSE data \o [i \in 1..(pos - Len(data)) |-> Hole] \o <<chunk>>

\* the handler is entered: a stream request with caching starts a pass and
\* the handler goes on to fs.pathExists
Request ==
    \E r \in ReqIds, inp \in ReqInputs :
        /\ reqs[r].pc = "idle"
        /\ LET name == cacheFileName(inp.action)
               second == \E o \in ReqIds \ {r} :
                            /\ inp = [action |-> "stream", range |-> FALSE, shouldCache |-> TRUE]
                            /\ reqs[o].action = "stream"
                            /\ ~reqs[o].range /\ reqs[o].shouldCache
                            /\ reqs[o].fetched /\ isOk(reqs[o].remoteStatus)
                            /\ wr[o].outcome = "promoted"
           IN  /\ reqs' = [reqs EXCEPT ![r] =
                              [IdleReq EXCEPT !.pc = "exists", !.action = inp.action,
                                              !.name = name, !.range = inp.range,
                                              !.shouldCache = inp.shouldCache,
                                              !.second = second]]
               /\ passes' = IF inp.action = "stream" /\ inp.shouldCache
                            THEN startPass(passes, PassOf(r))
                            ELSE passes
        /\ UNCHANGED <<fsVars, wr, clock, adminLeft, removals, nonCacheVars>>

\* await fs.pathExists(cacheFilePath)
PathExists ==
    \E r \in ReqIds :
        /\ reqs[r].pc = "exists"
        /\ reqs' = [reqs EXCEPT ![r].pc =
                       IF dir[reqs[r].name] = Null THEN "fetch"
                       ELSE IF reqs[r].action = "stream" THEN "stat" ELSE "serve"]
        /\ UNCHANGED <<fsVars, passes, wr, clock, adminLeft, removals, nonCacheVars>>

\* await fs.stat(cacheFilePath): an empty file is to be deleted, a ranged
\* request is answered from the file at once, a full one goes on to net.fetch
StatFile ==
    \E r \in ReqIds :
        /\ reqs[r].pc = "stat"
        /\ LET q == reqs[r]
               id == dir[q.name]
           IN  reqs' = [reqs EXCEPT ![r] =
                   IF id = Null THEN respond(q, ThrownResp)
                   ELSE IF ByteSize(files[id]) = 0 THEN [q EXCEPT !.pc = "unlink"]
                   ELSE IF q.range
                        THEN respond(q, [src |-> "cache", status |-> 206,
                                         body |-> SubSeq(files[id].data, 1, 1)])
                        ELSE [q EXCEPT !.pc = "serve"]]
        /\ UNCHANGED <<fsVars, passes, wr, clock, adminLeft, removals, nonCacheVars>>

\* await fs.unlink(cacheFilePath) of the empty file, then on to the remote
UnlinkEmpty ==
    \E r \in ReqIds :
        /\ reqs[r].pc = "unlink"
        /\ IF dir[reqs[r].name] = Null
           THEN /\ reqs' = [reqs EXCEPT ![r] = respond(reqs[r], ThrownResp)]
                /\ UNCHANGED dir
           ELSE /\ reqs' = [reqs EXCEPT ![r].pc = "fetch"]
                /\ dir' = [dir EXCEPT ![reqs[r].name] = Null]
        /\ UNCHANGED <<files, passes, wr, clock, adminLeft, removals, nonCacheVars>>

\* await net.fetch(fileUrl): the file as it is now is the response
ServeFile ==
    \E r \in ReqIds :
        /\ reqs[r].pc = "serve"
        /\ LET q == reqs[r]
               id == dir[q.name]
           IN  reqs' = [reqs EXCEPT ![r] =
                   IF id = Null THEN respond(q, ThrownResp)
                   ELSE respond(q, [src |-> "cache", status |-> 200, body |-> files[id].data])]
        /\ UNCHANGED <<fsVars, passes, wr, clock, adminLeft, removals, nonCacheVars>>

\* await net.fetch(remoteUrl) and the rest of the handler: the answer to the
\* caller, and for a cached answer the start of saveStreamToFile, which opens
\* the temp file for writing (an existing temp file is truncated)
FetchRemote ==
    \E r \in ReqIds :
        /\ reqs[r].pc = "fetch"
        /\ \E status \in OkStatuses(reqs[r].range) \cup FailStatuses \cup {0} :
              LET q == [reqs[r] EXCEPT !.fetched = TRUE, !.remoteStatus = status]
                  caches == isOk(status) /\ cachesResponse(q.action, q.shouldCache, q.range)
                  tmp == tempPath(q.name)
                  fd == IF dir[tmp] = Null THEN r ELSE dir[tmp]
              IN  /\ reqs' = [reqs EXCEPT ![r] =
                        IF status = 0
                        THEN respond(q, [src |-> "error", status |-> fetchErrorStatus(q.action),
                                         body |-> <<>>])
                        ELSE IF ~isOk(status)
                        THEN respond(q, [src |-> "remote",
                                         status |-> remoteFailureStatus(q.action, status),
                                         body |-> <<>>])
                        ELSE respond(q, [src |-> "remote", status |-> status,
                                         body |-> remoteBody(r, status)])]
                  /\ IF caches
                     THEN /\ wr' = [wr EXCEPT ![r] = [IdleWriter EXCEPT !.pc = "reading",
                                                          !.path = q.name, !.fd = fd]]
                          /\ dir' = [dir EXCEPT ![tmp] = fd]
                          /\ files' = [files EXCEPT ![fd] = [data |-> <<>>, mtime |-> clock + 1]]
                          /\ clock' = clock + 1
                     ELSE UNCHANGED <<wr, dir, files, clock>>
        /\ UNCHANGED <<passes, adminLeft, removals, nonCacheVars>>

\* reader.read() delivers a chunk and fileStream.write(value) queues it
WriterRead ==
    \E w \in ReqIds :
        /\ wr[w].pc = "reading"
        /\ wr[w].queued < MaxChunks
        /\ wr' = [wr EXCEPT ![w].queued = @ + 1]
        /\ UNCHANGED <<fsVars, passes, reqs, clock, adminLeft, removals, nonCacheVars>>

\* reader.read() reports done: fileStream.end(), and fs.move is called
WriterEnd ==
    \E w \in ReqIds :
        /\ wr[w].pc = "reading"
        /\ wr[w].queued = MaxChunks
        /\ wr' = [wr EXCEPT ![w].pc = "moving"]
        /\ UNCHANGED <<fsVars, passes, reqs, clock, adminLeft, removals, nonCacheVars>>

\* the write stream writes its next queued chunk to the file it holds open
WriterFlush ==
    \E w \in ReqIds :
        /\ wr[w].flushed < wr[w].queued
        /\ ~wr[w].broken
        /\ files' = [files EXCEPT ![wr[w].fd] =
                        [data |-> WriteAt(@.data, wr[w].flushed, [src |-> w, idx |-> wr[w].flushed + 1]),
                         mtime |-> clock + 1]]
        /\ clock' = clock + 1
        /\ wr' = [wr EXCEPT ![w].flushed = @ + 1]
        /\ UNCHANGED <<dir, passes, reqs, adminLeft, removals, nonCacheVars>>

\* await fs.move(tempPath, filePath, { overwrite: true }): the temp name's
\* file gets the final name; without a temp file the move throws and the
\* catch destroys the write stream
WriterMove ==
    \E w \in ReqIds :
        /\ wr[w].pc = "moving"
        /\ LET tmp == tempPath(wr[w].path)
           IN  IF dir[tmp] # Null
               THEN /\ dir' = [dir EXCEPT ![wr[w].path] = dir[tmp], ![tmp] = Null]
                    /\ wr' = [wr EXCEPT ![w].pc = "done", ![w].outcome = "promoted"]
               ELSE /\ wr' = [wr EXCEPT ![w].pc = "cleanup", ![w].broken = TRUE]
                    /\ UNCHANGED dir
        /\ UNCHANGED <<files, passes, reqs, clock, adminLeft, removals, nonCacheVars>>

\* the catch: fs.unlink(tempPath), errors ignored, and the rethrown error
\* reaches the handler's .catch
WriterCleanup ==
    \E w \in ReqIds :
        /\ wr[w].pc = "cleanup"
        /\ dir' = [dir EXCEPT ![tempPath(wr[w].path)] = Null]
        /\ wr' = [wr EXCEPT ![w].pc = "done", ![w].outcome = "discarded"]
        /\ reqs' = [reqs EXCEPT ![w].resp = onCacheWriteFailed(@)]
        /\ UNCHANGED <<files, passes, clock, adminLeft, removals, nonCacheVars>>

IdleClear == [pc |-> "idle", items |-> {}, result |-> "none"]

\* clear-cache: clearCache awaits fs.emptyDir(cacheDir), which first reads
\* the directory
ClearCache ==
    /\ adminLeft > 0
    /\ clr.pc = "idle"
    /\ adminLeft' = adminLeft - 1
    /\ clr' = [clr EXCEPT !.pc = "removing", !.items = Present(dir)]
    /\ UNCHANGED <<dir, removals, nonClearVars>>

\* fs.emptyDir removes the names it has read, a name that is gone by then
\* is no error, and clearCache returns true
ClearRemoved ==
    /\ clr.pc = "removing"
    /\ dir' = [n \in Names |-> IF n \in clr.items THEN Null ELSE dir[n]]
    /\ removals' = removals \cup {n \in FinalNames \cap clr.items : dir[n] # Null}
    /\ clr' = [clr EXCEPT !.pc = "done", !.result = "true"]
    /\ UNCHANGED <<adminLeft, nonClearVars>>

(***************************************************************************)
(* A download task's run                                                   *)
(***************************************************************************)
\* the chapter the ting:// requests stream, and its book
ChapterIds == {"c1"}
BookIds == {"b1"}
\* downloadStore.ts: const fileName = `${task.chapterId}.mp3`
taskFileName(chapterId) ==
    CASE chapterId = "c1" -> "c1.mp3"
      [] chapterId = "c2" -> "c2.mp3"
\* download-cover: const fileName = `cover_${bookId}`
coverFileName(bookId) == CASE bookId = "b1" -> "cover_b1"

\* what a download is asked for: a task's chapter, or its book's cover
DlInputs == {[kind |-> "chapter", id |-> c] : c \in ChapterIds}
                \cup {[kind |-> "cover", id |-> b] : b \in BookIds}
\* the ensureCacheLimits call downloadToCache starts after its move
DlPass == "p3"

IdleDl == [pc |-> "idle", kind |-> "chapter", id |-> "c1", fileName |-> "c1.mp3", fd |-> Null,
           queued |-> 0, flushed |-> 0, status |-> "pending", early |-> {}]

\* the call is over; for a chapter the store marks the task: completeTask
\* after { success: true }, failTask otherwise
dlSettled(d, success) ==
    [d EXCEPT !.pc = "done", !.status = IF success THEN "completed" ELSE "failed"]

\* startDownload marks the task 'downloading' and invokes the handler with
\* the file name; downloadToCache awaits axios: a rejected request ends the
\* call, a response opens the temp file for writing (an existing temp file
\* is truncated)
DownloadStart ==
    \E inp \in DlInputs, ok \in BOOLEAN :
        /\ dl.pc = "idle"
        /\ LET fileName == IF inp.kind = "chapter" THEN taskFileName(inp.id)
                                                   ELSE coverFileName(inp.id)
               tmp == tempPath(fileName)
               fd == IF dir[tmp] = Null THEN "d1" ELSE dir[tmp]
               d == [IdleDl EXCEPT !.kind = inp.kind, !.id = inp.id, !.fileName = fileName,
                                   !.status = "downloading"]
           IN  IF ok
               THEN /\ dl' = [d EXCEPT !.pc = "reading", !.fd = fd]
                    /\ dir' = [dir EXCEPT ![tmp] = fd]
                    /\ files' = [files EXCEPT ![fd] = [data |-> <<>>, mtime |-> clock + 1]]
                    /\ clock' = clock + 1
               ELSE /\ dl' = dlSettled(d, FALSE)
                    /\ UNCHANGED <<dir, files, clock>>
        /\ UNCHANGED <<passes, reqs, wr, nonDlVars>>

\* response.data 'data': writer.write(chunk) queues the chunk
DownloadData ==
    /\ dl.pc = "reading"
    /\ dl.queued < MaxChunks
    /\ dl' = [dl EXCEPT !.queued = @ + 1]
    /\ UNCHANGED <<fsVars, passes, reqs, wr, clock, nonDlVars>>

\* response.data 'end': writer.end()
DownloadEnd ==
    /\ dl.pc = "reading"
    /\ dl.queued = MaxChunks
    /\ dl' = [dl EXCEPT !.pc = "ending"]
    /\ UNCHANGED <<fsVars, passes, reqs, wr, clock, nonDlVars>>

\* the write stream writes its next queued chunk to the file it holds open
DownloadFlush ==
    /\ dl.pc \in {"reading", "ending"}
    /\ dl.flushed < dl.queued
    /\ files' = [files EXCEPT ![dl.fd] =
                    [data |-> WriteAt(@.data, dl.flushed, [src |-> "d1", idx |-> dl.flushed + 1]),
                     mtime |-> clock + 1]]
    /\ clock' = clock + 1
    /\ dl' = [dl EXCEPT !.flushed = @ + 1]
    /\ UNCHANGED <<dir, passes, reqs, wr, nonDlVars>>

\* response.data 'error': writer.close(), fs.unlink(tempPath), reject
DownloadError ==
    /\ dl.pc = "reading"
    /\ dir' = [dir EXCEPT ![tempPath(dl.fileName)] = Null]
    /\ dl' = dlSettled(dl, FALSE)
    /\ UNCHANGED <<files, passes, reqs, wr, clock, nonDlVars>>

\* writer 'finish', after the last queued chunk is written: fs.move(tempPath,
\* filePath, { overwrite: true }); then ensureCacheLimits() is started and
\* the call resolves; a move without a temp file rejects.  early keeps the
\* ting:// requests that had entered their handler before the call resolved
DownloadMove ==
    /\ dl.pc = "ending"
    /\ dl.flushed = dl.queued
    /\ LET tmp == tempPath(dl.fileName)
       IN  IF dir[tmp] # Null
           THEN /\ dir' = [dir EXCEPT ![dl.fileName] = dir[tmp], ![tmp] = Null]
                /\ passes' = startPass(passes, DlPass)
                /\ dl' = [dlSettled(dl, TRUE) EXCEPT
                             !.early = {r \in ReqIds : reqs[r].pc # "idle"}]
           ELSE /\ dl' = dlSettled(dl, FALSE)
                /\ UNCHANGED <<dir, passes>>
    /\ UNCHANGED <<files, reqs, wr, clock, nonDlVars>>

\* writer 'finish', and fs.move rejects although the temp file is there (the
\* final file is held open, the volume refuses the rename): catch (e) {
\* reject(e) } and nothing else
DownloadMoveFail ==
    /\ dl.pc = "ending"
    /\ dl.flushed = dl.queued
    /\ dir[tempPath(dl.fileName)] # Null
    /\ dl' = dlSettled(dl, FALSE)
    /\ UNCHANGED <<fsVars, passes, reqs, wr, clock, nonDlVars>>

CacheIdle ==
    /\ dl = IdleDl
    /\ clr = IdleClear
    /\ reqs = [r \in ReqIds |-> IdleReq]
    /\ wr = [w \in ReqIds |-> IdleWriter]
    /\ clock = 0
    /\ adminLeft = 0
    /\ removals = {}

FsEmpty ==
    /\ dir = [n \in Names |-> Null]
    /\ files = [i \in FileIds |-> NoFile]
LimitsIdle == maxFiles = MaxFileLimit /\ maxBytes = 1000 * MaxByteLimit
PassesIdle == passes = [p \in PassIds |-> IdlePass]
QueueIdle ==
    /\ tasks = <<>>
    /\ activeTaskId = Null
    /\ calls = [id \in TaskIds |-> 0]
    /\ isElectron = TRUE
    /\ opsLeft = 0
    /\ lastOp = NoOp

\* any cache directory of final files, under any limits
EvictInit ==
    /\ \E present \in SUBSET FinalNames,
          len \in [FinalNames -> 0..MaxChunks],
          mt \in [FinalNames -> 1..MaxMtime] :
            /\ dir = [n \in Names |-> IF n \in present THEN n ELSE Null]
            /\ files = [i \in FileIds |->
                           IF i \in present
                           THEN [data |-> Body("old", len[i]), mtime |-> mt[i]]
                           ELSE NoFile]
    /\ maxFiles \in 1..MaxFileLimit
    /\ maxBytes \in {1000 * k : k \in 1..MaxByteLimit}
    /\ PassesIdle
    /\ QueueIdle
    /\ RangeIdle
    /\ RedirIdle
    /\ CacheIdle

EvictNext ==
    \/ EvictCall
    \/ EvictReaddir("p1")
    \/ EvictStat("p1")
    \/ EvictUnlink("p1")
    \/ EvictReturn("p1")
    \/ EvictCrash("p1")

vars == <<queueVars, fsVars, limitVars, passes, rangeVars, redir, cacheVars, dl, clr>>

QueueSpecInit ==
    QueueInit /\ FsEmpty /\ LimitsIdle /\ PassesIdle /\ RangeIdle /\ RedirIdle /\ CacheIdle

SpecQueue == QueueSpecInit /\ [][QueueNext]_vars

\* every awaited downloadChapter call returns or rejects
SpecQueueFair == QueueSpecInit /\ [][QueueNext]_vars /\ WF_vars(DownloadSettled)

SpecEvict == EvictInit /\ [][EvictNext]_vars

\* two overlapping ensureCacheLimits calls over any cache directory
EvictPairNext ==
    \/ EvictCall
    \/ EvictCallAgain
    \/ \E p \in PassIds : EvictReaddir(p)
    \/ \E p \in PassIds : EvictStat(p)
    \/ \E p \in PassIds : EvictUnlink(p)
    \/ \E p \in PassIds : EvictUnlinkFail(p)
    \/ \E p \in PassIds : EvictReturn(p)

SpecEvictPair == EvictInit /\ [][EvictPairNext]_vars

\* any cache directory of non-empty files written up to now (the clock stands
\* at the latest modification time possible), no download yet
PromoteInit ==
    /\ \E present \in SUBSET FinalNames,
          len \in [FinalNames -> 1..MaxChunks],
          mt \in [FinalNames -> 1..MaxMtime] :
            /\ dir = [n \in Names |-> IF n \in present THEN n ELSE Null]
            /\ files = [i \in FileIds |->
                           IF i \in present
                           THEN [data |-> Body("old", len[i]), mtime |-> mt[i]]
                           ELSE NoFile]
    /\ maxFiles \in 1..MaxFileLimit
    /\ maxBytes \in {1000 * k : k \in 1..MaxByteLimit}
    /\ PassesIdle
    /\ dl = IdleDl
    /\ clr = IdleClear
    /\ reqs = [r \in ReqIds |-> IdleReq]
    /\ wr = [w \in ReqIds |-> IdleWriter]
    /\ clock = MaxMtime
    /\ adminLeft = 0
    /\ removals = {}
    /\ QueueIdle
    /\ RangeIdle
    /\ RedirIdle

\* one downloadToCache call with the pass it starts, next to a pass started
\* by another caller
PromoteNext ==
    \/ DownloadStart
    \/ DownloadData
    \/ DownloadEnd
    \/ DownloadFlush
    \/ DownloadError
    \/ DownloadMove
    \/ DownloadMoveFail
    \/ EvictCall
    \/ \E p \in {"p1", DlPass} : EvictReaddir(p)
    \/ \E p \in {"p1", DlPass} : EvictStat(p)
    \/ \E p \in {"p1", DlPass} : EvictUnlink(p)
    \/ \E p \in {"p1", DlPass} : EvictUnlinkFail(p)
    \/ \E p \in {"p1", DlPass} : EvictReturn(p)

SpecPromote == PromoteInit /\ [][PromoteNext]_vars

RangeSpecInit ==
    RangeInit /\ QueueIdle /\ FsEmpty /\ LimitsIdle /\ PassesIdle /\ RedirIdle /\ CacheIdle

\* an empty cache directory that may hold one file, no request yet
CacheSpecInit ==
    /\ FsEmpty
    /\ maxFiles = 1
    /\ maxBytes = 1000 * MaxByteLimit
    /\ PassesIdle
    /\ dl = IdleDl
    /\ clr = IdleClear
    /\ reqs = [r \in ReqIds |-> IdleReq]
    /\ wr = [w \in ReqIds |-> IdleWriter]
    /\ clock = 0
    /\ adminLeft = MaxAdmin
    /\ removals = {}
    /\ QueueIdle
    /\ RangeIdle
    /\ RedirIdle

CacheNext ==
    \/ Request
    \/ PathExists
    \/ StatFile
    \/ UnlinkEmpty
    \/ ServeFile
    \/ FetchRemote
    \/ WriterRead
    \/ WriterEnd
    \/ WriterFlush
    \/ WriterMove
    \/ WriterCleanup
    \/ ClearCache
    \/ ClearRemoved
    \/ \E p \in PassIds : EvictReaddir(p)
    \/ \E p \in PassIds : EvictStat(p)
    \/ \E p \in PassIds : EvictUnlink(p)
    \/ \E p \in PassIds : EvictUnlinkFail(p)
    \/ \E p \in PassIds : EvictReturn(p)

SpecCache == CacheSpecInit /\ [][CacheNext]_vars

\* a download task's run next to ting:// requests
DownloadNext ==
    \/ DownloadStart
    \/ DownloadData
    \/ DownloadEnd
    \/ DownloadFlush
    \/ DownloadError
    \/ DownloadMove
    \/ DownloadMoveFail
    \/ Request
    \/ PathExists
    \/ StatFile
    \/ UnlinkEmpty
    \/ ServeFile
    \/ FetchRemote
    \/ WriterRead
    \/ WriterEnd
    \/ WriterFlush
    \/ WriterMove
    \/ WriterCleanup

\* an empty cache directory, no request and no download yet
DownloadSpecInit ==
    FsEmpty /\ LimitsIdle /\ PassesIdle /\ QueueIdle /\ RangeIdle /\ RedirIdle /\ CacheIdle

SpecDownload == DownloadSpecInit /\ [][DownloadNext]_vars

RedirSpecInit ==
    RedirIdle /\ QueueIdle /\ FsEmpty /\ LimitsIdle /\ PassesIdle /\ RangeIdle /\ CacheIdle

SpecRedirect == RedirSpecInit /\ [][RedirNext]_vars

\* every request ends in a response or an error, and the handler's
\* continuations run
SpecRedirectFair == RedirSpecInit /\ [][RedirNext]_vars /\ WF_vars(RedirNext)

SpecRange == RangeSpecInit /\ [][ServeRange]_vars

(***************************************************************************)
(* Eviction: properties of one ensureCacheLimits pass                      *)
(***************************************************************************)
SeqNames(fs) == {fs[i].name : i \in 1..Len(fs)}
Entries(fs) == {fs[i] : i \in 1..Len(fs)}
RECURSIVE SetBytes(_)
SetBytes(S) == IF S = {} THEN 0
               ELSE LET x == CHOOSE y \in S : TRUE IN x.size + SetBytes(S \ {x})

\* the order of the entries: by modification time, and for equal times by
\* their place in the listing (the sort is stable)
Pos(stats, e) == CHOOSE i \in 1..Len(stats) : stats[i] = e
Before(stats, e, g) ==
    \/ e.mtime < g.mtime
    \/ e.mtime = g.mtime /\ Pos(stats, e) < Pos(stats, g)
\* D is a prefix of that order
OldestFirst(stats, D) == \A d \in D, k \in Entries(stats) \ D : Before(stats, d, k)
\* what is left after deleting D is within both limits
Fits(all, D) ==
    /\ Cardinality(all \ D) <= maxFiles
    /\ SetBytes(all \ D) <= maxBytes
\* D is the shortest prefix of the order that leaves the cache within limits
ShortestPrefix(stats, D) ==
    /\ D \subseteq Entries(stats)
    /\ OldestFirst(stats, D)
    /\ Fits(Entries(stats), D)
    /\ \A D2 \in SUBSET Entries(stats) :
          OldestFirst(stats, D2) /\ Fits(Entries(stats), D2) => Cardinality(D) <= Cardinality(D2)

\* the cache directory as it is now
StatsNow == getCacheStats(Readdir(dir), dir, files)
WithinLimits == Len(StatsNow) <= maxFiles /\ SumSizes(StatsNow) <= maxBytes

\* the pass has made its selection and has not returned yet
Selected(p) == passes[p].pc \in {"unlink", "return"}

C6_ConvergentIdempotent ==
    LET P == passes["p1"]
    IN  /\ P.outcome = "done" =>
              /\ WithinLimits
              /\ filesToDelete(StatsNow, maxFiles, maxBytes) = <<>>
        /\ Selected("p1") /\ ~Fits(Entries(P.stats), {}) => P.selected # <<>>
        /\ Selected("p1") /\ P.prev = "done" => P.selected = <<>>
        /\ P.prev = "done" => P.deleted = {}
        /\ P.pc = "return" => Fits(Entries(StatsNow), {})

\* a pass is at its end and has deleted files after the pass before it
\* stopped part-way
C6_Witness ==
    /\ passes["p1"].prev = "stopped"
    /\ passes["p1"].pc = "return"
    /\ passes["p1"].deleted # {}
    /\ Cardinality(Present(dir)) >= 1

(***************************************************************************)
(* Range serving: properties                                               *)
(***************************************************************************)
\* the request asks for bytes first..last of the file, last left out or given
ValidRange ==
    /\ rangeIn.first.given
    /\ LET last == IF rangeIn.last.given THEN rangeIn.last.v ELSE rangeIn.size - 1
       IN  0 <= rangeIn.first.v /\ rangeIn.first.v <= last /\ last < rangeIn.size

\* C9: for a cached file of n > 0 bytes and Range: bytes=start-end with
\* 0 <= start <= end < n (end defaulting to n-1), the answer is 206 with
\* Content-Range 'bytes start-end/n', Accept-Ranges 'bytes', Content-Length
\* end-start+1 and exactly the bytes start..end; n=1000 and bytes=100-199
\* give 'bytes 100-199/1000' and 100 bytes.
C9_RangeCorrect ==
    rangeOut.pc # "pending" /\ ValidRange =>
        LET n == rangeIn.size
            first == rangeIn.first.v
            last == IF rangeIn.last.given THEN rangeIn.last.v ELSE n - 1
        IN  /\ rangeOut.pc = "answered"
            /\ rangeOut.status = 206
            /\ rangeOut.contentRange =
                   <<"b", "y", "t", "e", "s", " ">> \o Digits(first) \o <<"-">> \o Digits(last)
                       \o <<"/">> \o Digits(n)
            /\ rangeOut.acceptRanges = <<"b", "y", "t", "e", "s">>
            /\ rangeOut.contentLength = Digits(last - first + 1)
            /\ rangeOut.body = first..last
            /\ (n = 1000 /\ first = 100 /\ last = 199 =>
                  /\ rangeOut.contentRange = <<"b", "y", "t", "e", "s", " ", "1", "0", "0", "-",
                                               "1", "9", "9", "/", "1", "0", "0", "0">>
                  /\ Cardinality(rangeOut.body) = 100)

\* the 1000-byte file has been served for bytes=100-199
C9_Witness ==
    /\ rangeIn.size = 1000 /\ rangeIn.first = Given(100) /\ rangeIn.last = Given(199)
    /\ rangeOut.pc = "answered"
    /\ rangeOut.status = 206
    /\ Cardinality(rangeOut.body) = 100

\* the start and the end a Content-Range value 'bytes S-E/N' names
contentRangeStart(cr) == DigitPrefix(SubSeq(cr, 7, Len(cr)))
contentRangeEnd(cr) ==
    DigitPrefix(SubSeq(cr, 7 + Len(contentRangeStart(cr)) + 1, Len(cr)))

\* C30: every 206 answer from the cache is self-consistent whatever Range the
\* client sent (an end at or beyond the file size, a start beyond the end or
\* the file size, a start left out): its Content-Range names start and end
\* with 0 <= start <= end < file size, and its Content-Length is the number
\* of bytes of the body.
C30_RangeAnswerSelfConsistent ==
    rangeOut.pc = "answered" /\ rangeOut.status = 206 =>
        LET s == contentRangeStart(rangeOut.contentRange)
            e == contentRangeEnd(rangeOut.contentRange)
        IN  /\ s # <<>> /\ e # <<>>
            /\ DigitsValue(s) <= DigitsValue(e)
            /\ DigitsValue(e) < rangeIn.size
            /\ rangeOut.contentLength = Digits(Cardinality(rangeOut.body))

(***************************************************************************)
(* Address resolution: properties                                          *)
(***************************************************************************)
\* the call has ended on a response that is no redirect
EndedOnResponse == redir.pc = "returned" /\ redir.hopStatus # 0

\* C10: when the chain reaches, inside the loop, a response that is no
\* redirect and whose status is 2xx or 401, the call returns the URL that
\* response came from; the URL requested after a redirect is the Location
\* resolved against the URL that answered with it; three redirects and then
\* a 200 return the fourth URL requested.
C10_ResolvesToRespondingHop ==
    /\ EndedOnResponse
       /\ ((redir.hopStatus >= 200 /\ redir.hopStatus < 300) \/ redir.hopStatus = 401)
       /\ ~(redir.hopStatus >= 300 /\ redir.hopStatus < 400)
       => /\ redir.result = redir.hopUrl
          /\ redir.cause = "accepted"
          /\ redir.requests = redir.loopCount + 1
    /\ redir.loopCount > 0 /\ redir.cause \in {"none", "accepted"} =>
          /\ newURL(redir.hopLocation, redir.prevUrl).ok
          /\ redir.currentUrl = newURL(redir.hopLocation, redir.prevUrl).url
    /\ redir.loopCount > 0 /\ redir.cause = "accepted" => redir.hopUrl = redir.currentUrl
    /\ redir.loopCount = 3 /\ EndedOnResponse /\ redir.hopStatus = 200 =>
          redir.requests = 4 /\ redir.result = redir.hopUrl

\* three redirects, the last one a relative Location, and then a 200: the
\* call has returned the fourth URL
C10_Witness ==
    /\ redir.pc = "returned"
    /\ redir.loopCount = 3
    /\ redir.requests = 4
    /\ redir.hopStatus = 200
    /\ redir.hopLocation = <<"q">>
    /\ redir.prevUrl = <<"http://", "httpbin", "/p", "/q">>
    /\ redir.result = <<"http://", "httpbin", "/p", "/q">>
    /\ redir.result # redir.initialUrl

\* the call ended on a response that is no followed redirect and whose
\* status is neither 2xx nor 401
EndedOnOtherStatus ==
    /\ EndedOnResponse
    /\ ~(redir.hopStatus >= 200 /\ redir.hopStatus < 300)
    /\ redir.hopStatus # 401

C12_FailureReturnsInput ==
    /\ redir.pc = "returned" /\ redir.cause # "accepted" =>
          /\ redir.cause \in {"too-many-redirects", "request-error", "invalid-url",
                              "invalid-location", "status"}
          /\ redir.result = redir.initialUrl
    /\ redir.pc = "returned" /\ redir.cause = "too-many-redirects" =>
          redir.loopCount = maxRedirects

\* a redirect was followed and the next Location could not be parsed: the
\* call has returned the input, which is not the URL it had reached
C12_Witness ==
    /\ redir.pc = "returned"
    /\ redir.cause = "invalid-location"
    /\ redir.loopCount >= 1
    /\ redir.result = redir.initialUrl
    /\ redir.result # redir.currentUrl

\* C13: the call issues at most 10 requests, and once it has entered the
\* loop it returns, whatever the server answers.
C13_TerminatesWithin10Requests ==
    /\ [](redir.requests <= 10 /\ redir.loopCount <= 10)
    /\ (redir.pc = "loop" ~> redir.pc = "returned")

\* a server that redirects /q to /q for ever: the call has returned after
\* its tenth request
C13_Witness ==
    /\ redir.pc = "returned"
    /\ redir.cause = "too-many-redirects"
    /\ redir.requests = 10
    /\ redir.hopLocation = <<"/q">>
    /\ redir.prevUrl = redir.currentUrl

\* C27: the hop budget admits 10 redirect hops: a chain of k <= 10 redirects
\* followed by a 2xx response resolves to the final URL, so the budget is
\* exhausted only when more than 10 redirects have been answered.
C27_TenHopsAdmitted ==
    redir.pc = "returned" /\ redir.cause = "too-many-redirects"
        => redir.loopCount > maxRedirects

(***************************************************************************)
(* StreamProxy: properties                                                 *)
(***************************************************************************)
\* the chunks of file id that request r's remote body supplied
ChunksFrom(id, r) == {i \in 1..Len(files[id].data) : files[id].data[i].src = r}
\* request r missed the cache and the remote answered it with `status`
Answered(r) == reqs[r].pc = "done" /\ reqs[r].fetched /\ reqs[r].remoteStatus # 0

\* C1: a stream request with a Range header that goes to the remote never
\* starts a cache write: it opens no temp file, promotes nothing, and no file
\* ever holds a byte of its response, whatever the other request does.
C1_RangedNeverCached ==
    \A r \in ReqIds :
        reqs[r].action = "stream" /\ reqs[r].range =>
            /\ wr[r] = IdleWriter
            /\ files[r] = NoFile
            /\ \A id \in FileIds : ChunksFrom(id, r) = {}

\* a ranged request with caching enabled has missed the cache and got its
\* 206 from the remote, while the other request's write was promoted
C1_Witness ==
    \E r \in ReqIds, o \in ReqIds :
        /\ reqs[r].action = "stream" /\ reqs[r].range /\ reqs[r].shouldCache
        /\ Answered(r) /\ reqs[r].remoteStatus = 206
        /\ reqs[r].resp.src = "remote"
        /\ reqs[o].name = reqs[r].name
        /\ wr[o].outcome = "promoted"

\* C2: every file under a final name holds the complete body of one
\* response: the temp file is renamed only after all bytes are written.
C2_FinalFileComplete ==
    \A n \in FinalNames :
        dir[n] # Null => \E w \in ReqIds : files[dir[n]].data = Body(w, MaxChunks)

\* C3: a stream request without Range and with caching, made after an equal
\* request missed, got a 2xx and had its write promoted, and with no
\* eviction or clear of the key since, is served from the cache and fetches
\* nothing from the remote.
C3_SecondRequestHits ==
    \A r \in ReqIds :
        /\ reqs[r].second
        /\ reqs[r].name \notin removals
        /\ reqs[r].pc \in {"unlink", "fetch", "done"}
        => /\ reqs[r].pc = "done"
           /\ reqs[r].resp.src = "cache"
           /\ ~reqs[r].fetched

\* C7 as stated: on a miss answered by the remote with a non-2xx status s,
\* the caller's response has status s for streams and covers alike, and the
\* request creates no cache file.
C7_StatusPropagated ==
    \A r \in ReqIds :
        Answered(r) /\ ~isOk(reqs[r].remoteStatus) =>
            /\ reqs[r].resp.status = reqs[r].remoteStatus
            /\ wr[r] = IdleWriter
            /\ files[r] = NoFile

\* C7 amended: on a miss answered by the remote with a non-2xx status s, a
\* stream request's response has status s, a cover request's response has
\* status 404 whatever s is, and in both cases the request creates no temp
\* and no final cache file.
C7_StreamPropagatesCoverAnswers404 ==
    \A r \in ReqIds :
        Answered(r) /\ ~isOk(reqs[r].remoteStatus) =>
            /\ reqs[r].action = "stream" => reqs[r].resp.status = reqs[r].remoteStatus
            /\ reqs[r].action = "cover" => reqs[r].resp.status = 404
            /\ wr[r] = IdleWriter
            /\ files[r] = NoFile
            /\ \A id \in FileIds : ChunksFrom(id, r) = {}

\* the remote answered 500 to a stream request and to a cover request: the
\* first has got 500, the second 404
C7_Witness ==
    \E r \in ReqIds, o \in ReqIds :
        /\ reqs[r].action = "stream" /\ Answered(r)
        /\ reqs[r].remoteStatus = 500 /\ reqs[r].resp.status = 500
        /\ reqs[o].action = "cover" /\ Answered(o)
        /\ reqs[o].remoteStatus = 500 /\ reqs[o].resp.status = 404

\* C8: a request that missed the cache and got a 2xx from the remote has
\* the remote's status and the whole remote body as its response, in every
\* state of its cache write: none, running, promoted or discarded.
C8_ResponseIndependentOfWrite ==
    \A r \in ReqIds :
        Answered(r) /\ isOk(reqs[r].remoteStatus) =>
            /\ reqs[r].resp.src = "remote"
            /\ reqs[r].resp.status = reqs[r].remoteStatus
            /\ reqs[r].resp.body = remoteBody(r, reqs[r].remoteStatus)

\* two requests got a 200: the cache write of one was discarded, that of
\* the other promoted, and both have the whole body with status 200
C8_Witness ==
    \E r \in ReqIds, o \in ReqIds :
        /\ wr[r].outcome = "discarded"
        /\ wr[o].outcome = "promoted"
        /\ \A q \in {r, o} :
              /\ reqs[q].resp.status = 200
              /\ reqs[q].resp.body = Body(q, MaxChunks)

(***************************************************************************)
(* Cache keys: properties                                                  *)
(***************************************************************************)
\* a ting:// request that entered its handler after the download of its key
\* had completed, and has been answered
AnsweredAfterDownload(r) ==
    /\ dl.status = "completed"
    /\ r \notin dl.early
    /\ reqs[r].pc = "done"
    /\ reqs[r].name = dl.fileName

\* C17: the file name a download task writes for chapter c is the key the
\* stream handler looks up for c, and download-cover and the cover handler
\* both use cover_<bookId>: a request for c that comes after the download
\* task for c has completed is answered from the cache file without a
\* remote fetch, unless the file was evicted or cleared.
C17_DownloadedIsHit ==
    \A r \in ReqIds :
        AnsweredAfterDownload(r) /\ dl.fileName \notin removals =>
            /\ reqs[r].resp.src = "cache"
            /\ ~reqs[r].fetched

\* C21: when a cache write fails (source stream error, failed rename), the
\* temp file is deleted and no final file changes: the step in which a
\* downloadToCache call that had opened its temp file ends in failure, and
\* the step in which saveStreamToFile's catch has run, leave no file under
\* the temp name and leave every final name as it was.
C21_FailedWriteCleansUp ==
    [][/\ (dl.pc \in {"reading", "ending"} /\ dl'.pc = "done" /\ dl'.status = "failed"
              => /\ dir'[tempPath(dl.fileName)] = Null
                 /\ \A n \in FinalNames : dir'[n] = dir[n])
       /\ \A w \in ReqIds :
              wr[w].pc = "cleanup" /\ wr'[w].pc = "done"
                  => /\ dir'[tempPath(wr[w].path)] = Null
                     /\ \A n \in FinalNames : dir'[n] = dir[n]]_vars

\* the saveStreamToFile calls made for final name n, and whether a
\* downloadToCache call opened n's temp file
StreamWritesOf(n) == {w \in ReqIds : wr[w].pc # "none" /\ wr[w].path = n}
DownloadWrites(n) == dl.pc # "idle" /\ dl.fd # Null /\ dl.fileName = n
\* every cache write made for n has ended, its queued chunks written
WritesEnded(n) ==
    /\ \A w \in StreamWritesOf(n) :
          wr[w].pc = "done" /\ (wr[w].broken \/ wr[w].flushed = wr[w].queued)
    /\ DownloadWrites(n) => dl.pc = "done"

\* C25: when two cache writes for the same key have run (two stream misses,
\* or a stream miss and a download task) and both have ended, the file
\* visible under the key is the complete body of one fetch, never a mix or a
\* truncation, and no temp file for the key is left.
C25_TwoWritesOneWhole ==
    \A n \in FinalNames :
        /\ Cardinality(StreamWritesOf(n)) + (IF DownloadWrites(n) THEN 1 ELSE 0) >= 2
        /\ WritesEnded(n)
        => /\ dir[tempPath(n)] = Null
           /\ dir[n] # Null => \E src \in WriterIds : files[dir[n]].data = Body(src, MaxChunks)

\* C26: a stream request always ends with a response, 200, 206 or an error
\* status: when the key's file is deleted between the request's existence
\* check and its stat or read, the handler still answers and its promise
\* never rejects.
C26_StreamAlwaysAnswers ==
    \A r \in ReqIds :
        reqs[r].action = "stream" /\ reqs[r].pc = "done"
            => /\ reqs[r].resp.src # "thrown"
               /\ reqs[r].resp.status \in {200, 206} \cup FailStatuses

\* request r is a stream request that carries cache=0
NoCacheRequest(r) ==
    reqs[r].pc # "idle" /\ reqs[r].action = "stream" /\ ~reqs[r].shouldCache

\* C24: a stream request carrying cache=0 never writes to the cache:
\* whatever the remote returns, no saveStreamToFile call is made for it (no
\* temp file, no promoted file), it starts no eviction pass, and a body the
\* remote sends is what the caller gets.
C24_NoCacheRequestWritesNothing ==
    \A r \in ReqIds :
        NoCacheRequest(r) =>
            /\ wr[r] = IdleWriter
            /\ passes[PassOf(r)] = IdlePass
            /\ (reqs[r].pc = "done" /\ reqs[r].fetched /\ isOk(reqs[r].remoteStatus)
                    => reqs[r].resp = [src |-> "remote", status |-> reqs[r].remoteStatus,
                                       body |-> remoteBody(r, reqs[r].remoteStatus)])

\* a cache=0 request without Range has been answered with the remote's
\* whole body while the key has neither a final nor a temp file
C24_Witness ==
    /\ NoCacheRequest("w1")
    /\ ~reqs["w1"].range
    /\ reqs["w1"].pc = "done"
    /\ reqs["w1"].remoteStatus = 200
    /\ reqs["w1"].resp.body = Body("w1", MaxChunks)
    /\ dir["c1.mp3"] = Null /\ dir["c1.mp3.tmp"] = Null

\* C23: when clearCache returns true the cache directory contains no file
\* at all: no final entry and no temp file of a write in progress.
C23_ClearedDirectoryIsEmpty ==
    [][clr.pc = "removing" /\ clr'.pc = "done" /\ clr'.result = "true"
          => \A n \in Names : dir'[n] = Null]_vars

\* no request, no cache write and no eviction pass is in progress
Quiet ==
    /\ \A r \in ReqIds :
          /\ reqs[r].pc \in {"idle", "done"}
          /\ wr[r].pc \in {"none", "done"}
          /\ wr[r].broken \/ wr[r].flushed = wr[r].queued
    /\ \A p \in PassIds : passes[p].pc = "idle"
    /\ dl.pc \in {"idle", "done"}
\* a cache write has promoted its file
SomePromoted == \E w \in ReqIds : wr[w].outcome = "promoted"

\* C22: every write that promotes a file is followed by an eviction pass
\* that starts after the promotion, so once no request, write or pass is in
\* progress the store holds at most maxFiles files and at most maxBytes
\* bytes.
C22_QuietStoreWithinLimits == Quiet /\ SomePromoted => WithinLimits

\* pass p is in its deletion loop with more than one selected entry left
SeveralLeft(p) == passes[p].pc = "unlink" /\ Len(passes[p].todo) > 1

\* C19: when deleting one entry fails during an ensureCacheLimits pass, the
\* pass goes on to attempt the deletion of every other entry it selected:
\* with several entries left, an unlink, failed or not, is followed by the
\* unlink of the next selected entry.
C19_PassAttemptsEverySelected ==
    [][\A p \in PassIds :
          SeveralLeft(p) /\ passes'[p] # passes[p]
              => passes'[p].pc = "unlink" /\ passes'[p].todo = Tail(passes[p].todo)]_vars

\* the names in a list of file stats
StatNames(stats) == {stats[i].name : i \in 1..Len(stats)}

\* no entry of the snapshot is larger than the byte bound
NoneOversized(stats) == \A i \in 1..Len(stats) : stats[i].size <= maxBytes
\* entry i of the snapshot is newer than every other entry
Latest(stats, i) == \A j \in 1..Len(stats) : j # i => stats[j].mtime < stats[i].mtime
\* no entry of the snapshot is newer than entry i
AmongLatest(stats, i) == \A j \in 1..Len(stats) : stats[j].mtime <= stats[i].mtime

\* C28: with MAX_FILES >= 1 and no file of the snapshot larger than the byte
\* bound, a pass never selects the entry with the latest modification time of
\* its snapshot (of several entries that share it, one is kept); so the pass
\* that downloadToCache starts after its move does not select the file just
\* promoted when nothing was written after it.
C28_LatestEntrySurvives ==
    \A p \in PassIds :
        LET stats == passes[p].stats
            sel == StatNames(passes[p].selected)
        IN  Selected(p) /\ maxFiles >= 1 /\ NoneOversized(stats)
                => /\ \A i \in 1..Len(stats) : Latest(stats, i) => stats[i].name \notin sel
                   /\ stats # <<>> =>
                         \E i \in 1..Len(stats) :
                             AmongLatest(stats, i) /\ stats[i].name \notin sel
                   /\ p = DlPass /\ dl.fileName \in StatNames(stats) => dl.fileName \notin sel

\* the download's pass has deleted an older file and returns; the promoted
\* chapter is in the directory with the download's whole body
C28_Witness ==
    /\ passes[DlPass].pc = "return"
    /\ passes[DlPass].deleted # {}
    /\ NoneOversized(passes[DlPass].stats)
    /\ dl.pc = "done" /\ dl.status = "completed" /\ dl.fileName = "c1.mp3"
    /\ "c1.mp3" \in StatNames(passes[DlPass].stats)
    /\ dir["c1.mp3"] = "d1"
    /\ files["d1"].data = Body("d1", MaxChunks)

\* C20: files named with a .tmp suffix are never treated as cache entries:
\* the stats a pass got from getCacheStats list no .tmp file, and a pass
\* neither selects nor deletes a .tmp file.
C20_TmpNeverAnEntry ==
    \A p \in PassIds :
        /\ StatNames(passes[p].stats) \cap TmpNames = {}
        /\ StatNames(passes[p].selected) \cap TmpNames = {}
        /\ passes[p].deleted \cap TmpNames = {}

\* a stream request has found a zero-byte file under its key
FoundEmpty(r) == reqs[r].pc = "unlink"
\* a stream request has been answered from the cache file
ServedFromCache(r) ==
    reqs[r].action = "stream" /\ reqs[r].pc = "done" /\ reqs[r].resp.src = "cache"

\* C18: a stream request that finds a zero-byte file under its chapter key
\* goes on, with the file deleted, to the remote fetch of a cache miss, and
\* no stream request is answered from the cache with a zero-byte file.
C18_EmptyFileDeletedThenFetched ==
    /\ [][\A r \in ReqIds :
            FoundEmpty(r) /\ reqs'[r] # reqs[r]
                => reqs'[r].pc = "fetch" /\ dir'[reqs[r].name] = Null]_vars
    /\ [](\A r \in ReqIds : ServedFromCache(r) => reqs[r].resp.body # <<>>)

(***************************************************************************)
(* DownloadTaskQueue: properties                                           *)
(***************************************************************************)
\* C14: addTask for an id that already has a record whose status is not
\* 'failed' (completed, pending or downloading) changes nothing: the task
\* list with every status and progress, and activeTaskId, stay as they are
\* and no download call is started.
C14_AddExistingIsNoOp ==
    [][lastOp'.op = "addTask" /\ lastOp'.found \in {"completed", "pending", "downloading"}
          => UNCHANGED <<tasks, activeTaskId, calls>>]_vars

\* addTask has just been called for a completed task while another download
\* is running and a third task waits
C14_Witness ==
    /\ lastOp = [op |-> "addTask", id |-> "a", found |-> "completed"]
    /\ StatusOf(tasks, "a") = "completed"
    /\ StatusOf(tasks, "b") = "downloading"
    /\ StatusOf(tasks, "c") = "pending"
    /\ activeTaskId = "b"

UniqueIds == \A i, j \in 1..Len(tasks) : tasks[i].id = tasks[j].id => i = j

\* C15: task ids are unique in the task list in every reachable state, and
\* addTask for an id whose record is 'failed' keeps the list's records in
\* place, sets that record to 'pending' with progress 0 and no error, and
\* hands the list to the queue, which starts the first pending task if no
\* task is active.
C15_UniqueIdsFailedReset ==
    /\ []UniqueIds
    /\ [][lastOp'.op = "addTask" /\ lastOp'.found = "failed" =>
            LET id == lastOp'.id
                i == IndexOf(tasks, id)
                reset == [tasks EXCEPT ![i] =
                             [id |-> id, status |-> "pending", progress |-> 0, error |-> FALSE]]
            IN  /\ Len(tasks') = Len(tasks)
                /\ \A j \in 1..Len(tasks) : tasks'[j].id = tasks[j].id
                /\ tasks'[i].progress = 0
                /\ activeTaskId # Null => tasks'[i] = reset[i] /\ calls' = calls
                /\ Store(tasks', activeTaskId', calls')
                       = processQueue(Store(reset, activeTaskId, calls), isElectron)]_vars

\* addTask has just been called for a failed task that had made progress,
\* while another download is running: the record waits again
C15_Witness ==
    /\ lastOp = [op |-> "addTask", id |-> "a", found |-> "failed"]
    /\ Len(tasks) = 2
    /\ tasks[2] = [id |-> "a", status |-> "pending", progress |-> 0, error |-> FALSE]
    /\ tasks[1].id = "b" /\ tasks[1].status = "downloading"
    /\ activeTaskId = "b"

\* the step hands task id to downloadChapter
StartsDownload(id) == calls'[id] > calls[id]
\* the step is an addTask of an id that has no record
AddsNew(id) ==
    /\ ~HasTask(tasks, id)
    /\ lastOp' = [op |-> "addTask", id |-> id, found |-> "none"]

\* C29: the task the queue starts is the pending task closest to the head of
\* the list: no task before it in the list is left pending; addTask puts a new
\* task at the head and keeps the others in place, so of the tasks added
\* while a download runs the one added last is started first.
C29_StartsPendingNearestHead ==
    [][\A id \in TaskIds :
          /\ StartsDownload(id) =>
                /\ HasTask(tasks', id)
                /\ tasks'[IndexOf(tasks', id)].status = "downloading"
                /\ activeTaskId' = id
                /\ \A j \in 1..(IndexOf(tasks', id) - 1) : tasks'[j].status # "pending"
          /\ AddsNew(id) =>
                /\ Len(tasks') = Len(tasks) + 1
                /\ tasks'[1].id = id
                /\ \A i \in 1..Len(tasks) : tasks'[i + 1].id = tasks[i].id]_vars

\* a was downloading when b and then c were added; a has completed and c,
\* added last, is the task started, b still waits
C29_Witness ==
    /\ lastOp = [op |-> "completeTask", id |-> "a", found |-> "downloading"]
    /\ Len(tasks) = 3
    /\ tasks[1].id = "c" /\ tasks[1].status = "downloading"
    /\ tasks[2].id = "b" /\ tasks[2].status = "pending"
    /\ tasks[3].id = "a" /\ tasks[3].status = "completed"
    /\ activeTaskId = "c"
    /\ calls["c"] = 1

\* C16: every task that is pending or downloading eventually is completed
\* or failed (or has been taken off the list by the user), given that every
\* download call returns and finitely many operations are invoked; tasks
\* restored from persisted storage after a restart included.
C16_EveryTaskSettles ==
    \A id \in TaskIds :
        (StatusOf(tasks, id) \in {"pending", "downloading"})
            ~> (StatusOf(tasks, id) \in {"completed", "failed", "none"})

InFlight == LET RECURSIVE Sum(_)
                Sum(S) == IF S = {} THEN 0
                          ELSE LET x == CHOOSE y \in S : TRUE IN calls[x] + Sum(S \ {x})
            IN  Sum(TaskIds)

Downloading == {i \in 1..Len(tasks) : tasks[i].status = "downloading"}

\* C4: at most one chapter download call is in flight, at most one task has
\* status 'downloading', and that task is the one named by activeTaskId.
C4_OneAtATime ==
    /\ InFlight <= 1
    /\ Cardinality(Downloading) <= 1
    /\ \A i \in Downloading : tasks[i].id = activeTaskId

====
